---- MODULE Spec2Model ----
(***************************************************************************)
(* A model of the CHIP-8 interpreter: the machine state of cpu.rs (memory, *)
(* registers, index register, program counter, call stack, timers), the    *)
(* screen of screen.rs, the loader of memory.rs and the keypad.            *)
(***************************************************************************)
EXTENDS Integers, Sequences, FiniteSets, TLC

\* ---------------------------------------------------------------- constants
MEMORY == 4096
LOWER_MEMORY_BOUNDARY == 512
REGISTER == 16
STACK == 16
SCREEN_WIDTH == 64
SCREEN_HEIGHT == 32
PIXEL_ON == 1
PIXEL_OFF == 0
FONT_BYTES_COPIED == 79

U8 == 256
U16 == 65536

CHIP8_FONTSET ==
    << 240, 144, 144, 144, 240,
        32,  96,  32,  32, 112,
       240,  16, 240, 128, 240,
       240,  16, 240,  16, 240,
       144, 144, 240,  16,  16,
       240, 128, 240,  16, 240,
       240, 128, 240, 144, 240,
       240,  16,  32,  64,  64,
       240, 144, 240, 144, 240,
       240, 144, 240,  16, 240,
       240, 144, 240, 144, 144,
       224, 144, 224, 144, 224,
       240, 128, 128, 128, 240,
       224, 144, 144, 144, 224,
       240, 128, 240, 128, 240,
       240, 128, 240, 128, 128 >>

\* take_keypress found no key (Option::None).
NoKey == 16

\* ---------------------------------------------------------------- bounds
MaxSteps == 34
MaxDepth == 17
MaxHeld == 2
MaxDraws == 3
MaxDetours == 2
MaxSprites == 3
MaxStores == 2

\* ---------------------------------------------------------------- state
VARIABLES
    chip8,            \* the Chip8 struct: memory, pc, i, register, stack, sp,
                      \* delay_timer, sound_timer, screen, collision, keyboard
    panicked,         \* a panic!() or a failed bounds check has unwound the call
    run_state,        \* "looping" inside Chip8::run, "returned" when it has just
                      \* returned, "idle" otherwise
    load_result,      \* what the last load_into_memory returned
    last_program,     \* the bytes the last load_into_memory was given
    overflow_checks,  \* the build traps integer overflow (debug) or wraps (release)
    last_opcode,      \* the opcode execute_instruction was last given
    steps,            \* how many opcodes execute_instruction was given
    keypad_call,      \* the host's last direct call of the keypad: what it
                      \* was, and the key it passed or was handed
    before,           \* the machine as it was when execute_instruction was
                      \* last entered
    counted,          \* what the last how_many_ones returned
    pending,          \* the addresses of the 2nnn instructions executed so far
                      \* whose 00EE has not executed yet, oldest first
    sprite_call       \* the host's last direct call of draw_sprite_at_location:
                      \* its arguments, what it returned, and how many such
                      \* calls were made

\* No direct call of draw_sprite_at_location was made yet.
NoSprite == [pixel |-> 0, x_coord |-> 0, y_coord |-> 0, returned |-> FALSE, calls |-> 0]

vars == << chip8, panicked, run_state, load_result, last_program, overflow_checks,
          last_opcode, steps, keypad_call, before, counted, pending, sprite_call >>

\* ---------------------------------------------------------------- memory.rs
MemoryDefault == [a \in 0..(MEMORY - 1) |-> 0]

\* A loader whose capacity check is off by one.
ProgramFitsStrict(program) == ~(Len(program) + LOWER_MEMORY_BOUNDARY >= MEMORY)

ProgramFits(program) == ~(Len(program) + LOWER_MEMORY_BOUNDARY > MEMORY)

\* A loader that zeroes what lies behind the program it copies.
load_program_clearing(mem, program) ==
    LET len == Len(program)
    IN IF ~ProgramFits(program)
       THEN [ok |-> FALSE, memory |-> mem]
       ELSE [ok |-> TRUE,
             memory |-> [a \in 0..(MEMORY - 1) |->
                           IF a < LOWER_MEMORY_BOUNDARY THEN mem[a]
                           ELSE IF a - LOWER_MEMORY_BOUNDARY < len
                           THEN program[a - LOWER_MEMORY_BOUNDARY + 1]
                           ELSE 0]]

load_program(mem, program) ==
    LET len == Len(program)
    IN IF ~ProgramFits(program)
       THEN [ok |-> FALSE, memory |-> mem]
       ELSE [ok |-> TRUE,
             memory |-> [a \in 0..(MEMORY - 1) |->
                           IF a >= LOWER_MEMORY_BOUNDARY /\ a - LOWER_MEMORY_BOUNDARY < len
                           THEN program[a - LOWER_MEMORY_BOUNDARY + 1]
                           ELSE mem[a]]]

\* ---------------------------------------------------------------- screen.rs
ScreenDefault ==
    [y \in 0..(SCREEN_HEIGHT - 1) |-> [x \in 0..(SCREEN_WIDTH - 1) |-> PIXEL_OFF]]

\* A pixel write that sets the pixel instead of toggling it.
draw_pixel_setting(scr, x, y) == [scr EXCEPT ![y][x] = PIXEL_ON]

draw_pixel_at_location(scr, x, y) ==
    [scr EXCEPT ![y][x] = IF @ = PIXEL_ON THEN PIXEL_OFF ELSE PIXEL_ON]

\* A clear that leaves the last line of the screen as it was.
clear_screen_but_last_line(scr) ==
    [y \in 0..(SCREEN_HEIGHT - 1) |->
        IF y = SCREEN_HEIGHT - 1 THEN scr[y] ELSE [x \in 0..(SCREEN_WIDTH - 1) |-> 0]]

clear_screen(scr) ==
    [y \in 0..(SCREEN_HEIGHT - 1) |-> [x \in 0..(SCREEN_WIDTH - 1) |-> 0]]

\* ---------------------------------------------------------------- keyboard.rs
KeypadDefault == {}

keypress(pressed_keys, key) == pressed_keys \cup {key}

any_key_pressed(pressed_keys) == Cardinality(pressed_keys) > 0

\* The keys a consuming read may hand out: one of the pressed keys, or none.
TakeChoices(pressed_keys) == IF pressed_keys = {} THEN {NoKey} ELSE pressed_keys

take_keypress(pressed_keys, key) == [key |-> key, keyboard |-> {}]

was_key_pressed(pressed_keys, key) == key \in pressed_keys

\* ---------------------------------------------------------------- arithmetic
Bit(v, k) == (v \div (2 ^ k)) % 2

BitAnd(a, b) ==
    LET RECURSIVE go(_)
        go(k) == IF k = 16 THEN 0 ELSE (2 ^ k) * Bit(a, k) * Bit(b, k) + go(k + 1)
    IN go(0)

BitOr(a, b) == a + b - BitAnd(a, b)

BitXor(a, b) == a + b - 2 * BitAnd(a, b)

Abs(v) == IF v < 0 THEN 0 - v ELSE v

\* An unsigned addition of the given width: it traps when the build checks
\* overflow and wraps when it does not.
AddTraps(a, b, width) == overflow_checks /\ a + b >= width

AddWrap(a, b, width) == (a + b) % width

\* ---------------------------------------------------------------- screen.rs, drawing
flag_collision(m) == [m EXCEPT !.collision = TRUE]

reset_collision(m) == [m EXCEPT !.collision = FALSE]

\* Screen::draw_sprite_at_location on the screen and collision flag of m.
draw_sprite_at_location(m, pixel, x_coord, y_coord) ==
    LET RECURSIVE go(_, _)
        go(mm, xline) ==
            IF xline = 8
            THEN [m |-> reset_collision(mm), panic |-> FALSE, collision |-> mm.collision]
            ELSE IF Bit(pixel, 7 - xline) = 0 THEN go(mm, xline + 1)
            ELSE IF ~(y_coord < SCREEN_HEIGHT)
                    \/ AddTraps(x_coord, xline, U8)
                    \/ ~(AddWrap(x_coord, xline, U8) < SCREEN_WIDTH)
            THEN [m |-> mm, panic |-> TRUE, collision |-> FALSE]
            ELSE LET col == AddWrap(x_coord, xline, U8)
                     hit == mm.screen[y_coord][col] = PIXEL_ON
                     m1 == IF hit THEN flag_collision(mm) ELSE mm
                 IN go([m1 EXCEPT !.screen = draw_pixel_at_location(@, col, y_coord)],
                       xline + 1)
    IN go(m, 0)

\* The pixels of one row that are PIXEL_ON.
row_ones(row) == Cardinality({x \in 0..(SCREEN_WIDTH - 1) : row[x] = PIXEL_ON})

\* The counter is a u8 and counter += 1 runs once for every pixel that is
\* PIXEL_ON, row by row: the additions of one row are taken together, and
\* they overflow exactly when their sum does.
how_many_ones(scr) ==
    LET RECURSIVE count(_, _)
        count(y, counter) ==
            IF y = SCREEN_HEIGHT THEN [value |-> counter, panic |-> FALSE]
            ELSE IF AddTraps(counter, row_ones(scr[y]), U8)
            THEN [value |-> counter, panic |-> TRUE]
            ELSE count(y + 1, AddWrap(counter, row_ones(scr[y]), U8))
    IN count(0, 0)

\* ---------------------------------------------------------------- cpu.rs
Ok(m) == [m |-> m, panic |-> FALSE]

Panic(m) == [m |-> m, panic |-> TRUE]

\* memory.rs Index / IndexMut: a bounds-checked access.
InMemory(addr) == addr < MEMORY

\* A store that wraps the address into the array instead of checking it.
mem_write_wrapping(m, addr, value) == Ok([m EXCEPT !.memory[addr % MEMORY] = value])

mem_write(m, addr, value) ==
    IF InMemory(addr) THEN Ok([m EXCEPT !.memory[addr] = value]) ELSE Panic(m)

\* A populate that zeroes the registers it is given no value for.
populate_register_zero_fill(m, data) ==
    IF Len(data) > REGISTER THEN Panic(m)
    ELSE Ok([m EXCEPT !.register = [r \in 0..(REGISTER - 1) |->
                                       IF r < Len(data) THEN data[r + 1] ELSE 0]])

populate_register(m, data) ==
    LET RECURSIVE go(_, _)
        go(mm, idx) ==
            IF idx >= Len(data) THEN Ok(mm)
            ELSE IF idx >= REGISTER THEN Panic(mm)
            ELSE go([mm EXCEPT !.register[idx] = data[idx + 1]], idx + 1)
    IN go(m, 0)

load_into_memory(m, program) ==
    LET res == load_program(m.memory, program)
    IN [ok |-> res.ok, m |-> [m EXCEPT !.memory = res.memory]]

read_opcode(m) ==
    IF ~InMemory(m.pc) THEN [panic |-> TRUE, opcode |-> 0]
    ELSE IF AddTraps(m.pc, 1, U16) \/ ~InMemory(AddWrap(m.pc, 1, U16))
    THEN [panic |-> TRUE, opcode |-> 0]
    ELSE [panic |-> FALSE,
          opcode |-> m.memory[m.pc] * 256 + m.memory[AddWrap(m.pc, 1, U16)]]

StackGuardTrips(sp) == sp > STACK

\* A call that pushes the address of the next instruction.
call_fn_pushing_next(m, addr) ==
    IF ~(m.sp < STACK) THEN Panic(m)
    ELSE Ok([m EXCEPT !.stack[m.sp] = m.pc + 2, !.sp = m.sp + 1, !.pc = addr])

\* A call that reuses the stack from the bottom when it is full.
call_fn_wrapping(m, addr) ==
    Ok([m EXCEPT !.stack[m.sp % STACK] = m.pc, !.sp = (m.sp % STACK) + 1, !.pc = addr])

\* A call that pushes its own target.
call_fn_storing_target(m, addr) ==
    IF ~(m.sp < STACK) THEN Panic(m)
    ELSE Ok([m EXCEPT !.stack[m.sp] = addr, !.sp = m.sp + 1, !.pc = addr])

call_fn_at_addr(m, addr) ==
    IF StackGuardTrips(m.sp) THEN Panic(m)
    ELSE IF ~(m.sp < STACK) THEN Panic(m)
    ELSE Ok([m EXCEPT !.stack[m.sp] = m.pc, !.sp = m.sp + 1, !.pc = addr])

\* A return that does not look at the stack pointer first.
return_unguarded(m) ==
    LET sp == IF m.sp = 0 THEN STACK - 1 ELSE m.sp - 1
    IN Ok([m EXCEPT !.sp = sp, !.pc = m.stack[sp]])

return_from_fn_call(m) ==
    IF m.sp = 0 THEN Panic(m)
    ELSE Ok([m EXCEPT !.sp = m.sp - 1, !.pc = m.stack[m.sp - 1]])

\* A jump that abandons the calls in progress.
set_pc_unwinding(m, addr) == [m EXCEPT !.pc = addr, !.sp = 0]

set_pc_to_addr(m, addr) == [m EXCEPT !.pc = addr]

\* An advance over two instructions.
advance_pc_twice(m) ==
    IF AddTraps(m.pc, 4, U16) THEN Panic(m)
    ELSE Ok([m EXCEPT !.pc = AddWrap(m.pc, 4, U16)])

\* self.pc += 2
advance_pc(m) ==
    IF AddTraps(m.pc, 2, U16) THEN Panic(m)
    ELSE Ok([m EXCEPT !.pc = AddWrap(m.pc, 2, U16)])

\* A skip that is taken when the condition fails.
skip_if_inverted(m, cond) == IF cond THEN Ok(m) ELSE advance_pc(m)

skip_if(m, cond) == IF cond THEN advance_pc(m) ELSE Ok(m)

\* An add that raises the flag on a carry and never lowers it.
add_keeping_flag(m, x, y) ==
    LET arg1 == m.register[x]
        arg2 == m.register[y]
        m1 == [m EXCEPT !.register[x] = (arg1 + arg2) % U8]
    IN IF arg1 + arg2 >= U8 THEN [m1 EXCEPT !.register[15] = 1] ELSE m1

add(m, x, y) ==
    LET arg1 == m.register[x]
        arg2 == m.register[y]
        val == (arg1 + arg2) % U8
        overflow == arg1 + arg2 >= U8
        m1 == [m EXCEPT !.register[x] = val]
    IN [m1 EXCEPT !.register[15] = IF overflow THEN 1 ELSE 0]

\* A subtraction that wraps around on a borrow.
sub_wrapping(m, x, y) ==
    LET vx == m.register[x]
        vy == m.register[y]
        m1 == [m EXCEPT !.register[x] = (vx - vy) % U8]
    IN [m1 EXCEPT !.register[15] = IF vy > vx THEN 0 ELSE 1]

sub(m, x, y) ==
    LET vx == m.register[x]
        vy == m.register[y]
    IN IF vy > vx
       THEN LET m1 == [m EXCEPT !.register[x] = Abs(vx - vy + 1) % U8]
            IN [m1 EXCEPT !.register[15] = 0]
       ELSE LET m1 == [m EXCEPT !.register[x] = vx - vy]
            IN [m1 EXCEPT !.register[15] = 1]

\* An 8xy7 that wraps around on a borrow.
vy_minus_vx_wrapping(m, x, y) ==
    LET vx == m.register[x]
        vy == m.register[y]
        m1 == [m EXCEPT !.register[x] = (vy - vx) % U8]
    IN [m1 EXCEPT !.register[15] = IF vx > vy THEN 0 ELSE 1]

\* 8xy7, written out in the match arm.
vy_minus_vx(m, x, y) ==
    LET vx == m.register[x]
        vy == m.register[y]
    IN IF vx > vy
       THEN LET m1 == [m EXCEPT !.register[x] = Abs(vy - vx + 1) % U8]
            IN [m1 EXCEPT !.register[15] = 0]
       ELSE LET m1 == [m EXCEPT !.register[x] = Abs(vy - vx) % U8]
            IN [m1 EXCEPT !.register[15] = 1]

\* A 7xnn that reports its carry in VF, as 8xy4 does.
add_nn_with_carry(m, x, nn) ==
    LET m1 == [m EXCEPT !.register[x] = (m.register[x] + nn) % U8]
    IN [m1 EXCEPT !.register[15] = IF m.register[x] + nn >= U8 THEN 1 ELSE 0]

\* 7xnn: the sum is formed in 16 bits and masked with 0xff.
add_nn_to_vx(m, x, nn) == [m EXCEPT !.register[x] = (m.register[x] + nn) % U8]

\* A Bnnn that keeps the target inside the 12-bit address space.
jump_plus_v0_masked(m, nnn) == [m EXCEPT !.pc = (nnn + m.register[0]) % MEMORY]

\* Bnnn
jump_plus_v0(m, nnn) == [m EXCEPT !.pc = nnn + m.register[0]]

\* An arm that swallows an opcode no other arm matches.
unknown_opcode_ignored(m) == Ok(m)

\* The catch-all arms: panic!("Unknown opcode ...").
unknown_opcode(m) == Panic(m)

\* An 8xy6 that shifts Vy into Vx, as the first interpreters did.
shift_right_of_vy(m, x, y) ==
    LET m1 == [m EXCEPT !.register[15] = m.register[y] % 2]
    IN [m1 EXCEPT !.register[x] = m1.register[y] \div 2]

\* 8xy6, written out in the match arm: VF first, then Vx from the register
\* file as it is by then.
shift_right(m, x, y) ==
    LET m1 == [m EXCEPT !.register[15] = m.register[x] % 2]
    IN [m1 EXCEPT !.register[x] = m1.register[x] \div 2]

\* 8xyE, written out in the match arm.
shift_left(m, x, y) ==
    LET m1 == [m EXCEPT !.register[15] = m.register[x] \div 128]
    IN [m1 EXCEPT !.register[x] = (m1.register[x] * 2) % U8]

\* 8xyN
arith(m, opcode, x, y, n) ==
    CASE n = 0 -> Ok([m EXCEPT !.register[x] = m.register[y]])
      [] n = 1 -> Ok([m EXCEPT !.register[x] = BitOr(m.register[x], m.register[y])])
      [] n = 2 -> Ok([m EXCEPT !.register[x] = BitAnd(m.register[x], m.register[y])])
      [] n = 3 -> Ok([m EXCEPT !.register[x] = BitXor(m.register[x], m.register[y])])
      [] n = 4 -> Ok(add(m, x, y))
      [] n = 5 -> Ok(sub(m, x, y))
      [] n = 6 -> Ok(shift_right(m, x, y))
      [] n = 7 -> Ok(vy_minus_vx(m, x, y))
      [] n = 14 -> Ok(shift_left(m, x, y))
      [] OTHER -> unknown_opcode(m)

\* Dxyn
draw(m, x, y, n) ==
    LET m0 == [m EXCEPT !.register[15] = 0]
        x_coord == m0.register[x]
        y_coord == m0.register[y]
        RECURSIVE rows(_, _)
        rows(mm, yline) ==
            IF yline = n THEN Ok(mm)
            ELSE IF AddTraps(mm.i, yline, U16) \/ ~InMemory(AddWrap(mm.i, yline, U16))
            THEN Panic(mm)
            ELSE IF AddTraps(y_coord, yline, U8) THEN Panic(mm)
            ELSE LET pixel == mm.memory[AddWrap(mm.i, yline, U16)]
                     d == draw_sprite_at_location(mm, pixel, x_coord,
                                                  AddWrap(y_coord, yline, U8))
                 IN IF d.panic THEN Panic(d.m)
                    ELSE rows(IF d.collision
                              THEN [d.m EXCEPT !.register[15] = 1]
                              ELSE d.m,
                              yline + 1)
    IN rows(m0, 0)

\* Fx1E
add_vx_to_i(m, x) ==
    IF AddTraps(m.i, m.register[x], U16) THEN Panic(m)
    ELSE LET m1 == IF AddWrap(m.i, m.register[x], U16) > 4095
                   THEN [m EXCEPT !.register[15] = 1]
                   ELSE m
         IN IF AddTraps(m1.i, m1.register[x], U16) THEN Panic(m1)
            ELSE Ok([m1 EXCEPT !.i = AddWrap(m1.i, m1.register[x], U16)])

\* Fx29
font_address(m, x) ==
    IF overflow_checks /\ m.register[x] * 5 >= U8 THEN Panic(m)
    ELSE Ok([m EXCEPT !.i = (m.register[x] * 5) % U8])

\* Fx33
\* An Fx33 that stores the units first.
store_bcd_units_first(m, x) ==
    LET vx == m.register[x]
        w0 == mem_write(m, m.i, vx % 10)
        w1 == mem_write(w0.m, AddWrap(m.i, 1, U16), (vx \div 10) % 10)
        w2 == mem_write(w1.m, AddWrap(m.i, 2, U16), vx \div 100)
    IN IF w0.panic THEN w0
       ELSE IF AddTraps(m.i, 1, U16) THEN Panic(w0.m)
       ELSE IF w1.panic THEN w1
       ELSE IF AddTraps(m.i, 2, U16) THEN Panic(w1.m)
       ELSE w2

store_bcd(m, x) ==
    LET vx == m.register[x]
        w0 == mem_write(m, m.i, vx \div 100)
        w1 == mem_write(w0.m, AddWrap(m.i, 1, U16), (vx \div 10) % 10)
        w2 == mem_write(w1.m, AddWrap(m.i, 2, U16), vx % 10)
    IN IF w0.panic THEN w0
       ELSE IF AddTraps(m.i, 1, U16) THEN Panic(w0.m)
       ELSE IF w1.panic THEN w1
       ELSE IF AddTraps(m.i, 2, U16) THEN Panic(w1.m)
       ELSE w2

\* An Fx55 that leaves I after the last byte it stored, as the first
\* interpreters did.
store_registers_advancing_i(m, x) ==
    LET RECURSIVE go(_, _)
        go(mm, idx) ==
            IF idx > x THEN Ok([mm EXCEPT !.i = (mm.i + x + 1) % U16])
            ELSE IF AddTraps(mm.i, idx, U16) THEN Panic(mm)
            ELSE LET w == mem_write(mm, AddWrap(mm.i, idx, U16), mm.register[idx])
                 IN IF w.panic THEN w ELSE go(w.m, idx + 1)
    IN go(m, 0)

\* Fx55
store_registers(m, x) ==
    LET RECURSIVE go(_, _)
        go(mm, idx) ==
            IF idx > x THEN Ok(mm)
            ELSE IF AddTraps(mm.i, idx, U16) THEN Panic(mm)
            ELSE LET w == mem_write(mm, AddWrap(mm.i, idx, U16), mm.register[idx])
                 IN IF w.panic THEN w ELSE go(w.m, idx + 1)
    IN go(m, 0)

\* Fx65
fill_registers(m, x) ==
    LET last == AddWrap(m.i, x, U16)
        RECURSIVE go(_, _, _)
        go(mm, starting_idx, idx) ==
            IF idx > last THEN Ok(mm)
            ELSE IF ~InMemory(idx) THEN Panic(mm)
            ELSE go([mm EXCEPT !.register[starting_idx] = mm.memory[idx]],
                    starting_idx + 1, idx + 1)
    IN IF AddTraps(m.i, x, U16) THEN Panic(m) ELSE go(m, 0, m.i)

\* A tick that forgets the sound timer.
update_timers_delay_only(m) ==
    [m EXCEPT !.delay_timer = IF @ > 0 THEN @ - 1 ELSE @]

\* The two timers tick after an instruction that falls through the match.
update_timers(m) ==
    [m EXCEPT !.delay_timer = IF @ > 0 THEN @ - 1 ELSE @,
              !.sound_timer = IF @ > 0 THEN @ - 1 ELSE @]

\* An arm whose early return is missing.
ReturnedFallingThrough(r) == [m |-> r.m, panic |-> r.panic, returned |-> FALSE]

Returned(r) == [m |-> r.m, panic |-> r.panic, returned |-> TRUE]

Falls(r) == [m |-> r.m, panic |-> r.panic, returned |-> FALSE]

\* Ex9E: the key taken from the keypad is compared with Some(x as u8).
skip_if_key_pressed(m, x, key) ==
    LET t == take_keypress(m.keyboard, key)
        m1 == [m EXCEPT !.keyboard = t.keyboard]
    IN Falls(skip_if(m1, t.key = x))

\* ExA1: was_key_pressed(x as u8).
skip_if_key_not_pressed(m, x) ==
    Falls(skip_if(m, ~was_key_pressed(m.keyboard, x)))

\* An Fx0A that goes on to the next instruction when it finds no key.
wait_for_key_not_waiting(m, x, key) ==
    LET t == take_keypress(m.keyboard, key)
        m1 == [m EXCEPT !.keyboard = t.keyboard]
    IN IF t.key = NoKey THEN Falls(Ok(m1))
       ELSE Falls(Ok([m1 EXCEPT !.register[x] = t.key]))

\* An Fx0A whose wait lets the timers run.
wait_for_key_ticking(m, x, key) ==
    LET t == take_keypress(m.keyboard, key)
        m1 == [m EXCEPT !.keyboard = t.keyboard]
    IN IF t.key = NoKey THEN Returned(Ok(update_timers(m1)))
       ELSE Falls(Ok([m1 EXCEPT !.register[x] = t.key]))

\* Fx0A
wait_for_key(m, x, key) ==
    LET t == take_keypress(m.keyboard, key)
        m1 == [m EXCEPT !.keyboard = t.keyboard]
    IN IF t.key = NoKey THEN Returned(Ok(m1))
       ELSE Falls(Ok([m1 EXCEPT !.register[x] = t.key]))

\* The match of execute_instruction: which arm runs, and whether it returns
\* before the program counter is advanced.
dispatch(m, opcode, r, key) ==
    LET opcode_group == opcode \div 4096
        x == (opcode \div 256) % 16
        y == (opcode \div 16) % 16
        n == opcode % 16
        nnn == opcode % 4096
        nn == opcode % 256
    IN CASE opcode = 0 -> Returned(Ok(m))
         [] opcode = 224 -> Falls(Ok([m EXCEPT !.screen = clear_screen(@)]))
         [] opcode = 238 -> Falls(return_from_fn_call(m))
         [] opcode_group = 1 -> Returned(Ok(set_pc_to_addr(m, nnn)))
         [] opcode_group = 2 -> Returned(call_fn_at_addr(m, nnn))
         [] opcode_group = 3 -> Falls(skip_if(m, m.register[x] = nn))
         [] opcode_group = 4 -> Falls(skip_if(m, m.register[x] # nn))
         [] opcode_group = 5 /\ n = 0 -> Falls(skip_if(m, m.register[x] = m.register[y]))
         [] opcode_group = 6 -> Falls(Ok([m EXCEPT !.register[x] = nn]))
         [] opcode_group = 7 -> Falls(Ok(add_nn_to_vx(m, x, nn)))
         [] opcode_group = 8 -> Falls(arith(m, opcode, x, y, n))
         [] opcode_group = 9 /\ n = 0 -> Falls(skip_if(m, m.register[x] # m.register[y]))
         [] opcode_group = 10 -> Falls(Ok([m EXCEPT !.i = nnn]))
         [] opcode_group = 11 -> Returned(Ok(jump_plus_v0(m, nnn)))
         [] opcode_group = 12 -> Falls(Ok([m EXCEPT !.register[x] = BitAnd(r, nn)]))
         [] opcode_group = 13 -> Falls(draw(m, x, y, n))
         [] opcode_group = 14 /\ y = 9 /\ n = 14 -> skip_if_key_pressed(m, x, key)
         [] opcode_group = 14 /\ y = 10 /\ n = 1 -> skip_if_key_not_pressed(m, x)
         [] opcode_group = 15 /\ y = 0 /\ n = 7 ->
                Falls(Ok([m EXCEPT !.register[x] = m.delay_timer]))
         [] opcode_group = 15 /\ y = 0 /\ n = 10 -> wait_for_key(m, x, key)
         [] opcode_group = 15 /\ y = 1 /\ n = 5 ->
                Falls(Ok([m EXCEPT !.delay_timer = m.register[x]]))
         [] opcode_group = 15 /\ y = 1 /\ n = 8 ->
                Falls(Ok([m EXCEPT !.sound_timer = m.register[x]]))
         [] opcode_group = 15 /\ y = 1 /\ n = 14 -> Falls(add_vx_to_i(m, x))
         [] opcode_group = 15 /\ y = 2 /\ n = 9 -> Falls(font_address(m, x))
         [] opcode_group = 15 /\ y = 3 /\ n = 3 -> Falls(store_bcd(m, x))
         [] opcode_group = 15 /\ y = 5 /\ n = 5 -> Falls(store_registers(m, x))
         [] opcode_group = 15 /\ y = 6 /\ n = 5 -> Falls(fill_registers(m, x))
         [] OTHER -> Returned(unknown_opcode(m))

execute_instruction(m, opcode, r, key) ==
    LET d == dispatch(m, opcode, r, key)
    IN IF d.panic \/ d.returned THEN [m |-> d.m, panic |-> d.panic]
       ELSE LET a == advance_pc(d.m)
            IN IF a.panic THEN a ELSE Ok(update_timers(a.m))

new ==
    [memory      |-> [a \in 0..(MEMORY - 1) |->
                        IF a < FONT_BYTES_COPIED THEN CHIP8_FONTSET[a + 1]
                        ELSE MemoryDefault[a]],
     i           |-> 0,
     pc          |-> LOWER_MEMORY_BOUNDARY,
     register    |-> [r \in 0..(REGISTER - 1) |-> 0],
     stack       |-> [k \in 0..(STACK - 1) |-> 0],
     sp          |-> 0,
     delay_timer |-> 0,
     sound_timer |-> 0,
     screen      |-> ScreenDefault,
     collision   |-> FALSE,
     keyboard    |-> KeypadDefault]

\* ---------------------------------------------------------------- inputs
\* Every test program is followed by zero bytes (the halt sentinel) up to this
\* length, as the zeroed memory behind a shorter program would.
PadLen == 4 * MaxDepth + 4

Padded(bytes) ==
    LET len == Len(bytes)
    IN [k \in 1..PadLen |-> IF k <= len THEN bytes[k] ELSE 0]

\* A program of the given length that repeats one two-byte instruction.
Repeat(hi, lo, len) == [k \in 1..len |-> IF k % 2 = 1 THEN hi ELSE lo]

\* Calls nested depth deep: the call at 512 + 4k enters the one at 512 + 4(k+1),
\* every callee returns at once, and the word after the outermost call halts.
NestedCalls(depth) ==
    [k \in 1..(4 * depth + 2) |->
        LET slot == (k - 1) \div 4
            byte == (k - 1) % 4
            target == LOWER_MEMORY_BOUNDARY + 4 * (slot + 1)
        IN IF slot = depth THEN (IF byte = 0 THEN 0 ELSE 238)
           ELSE IF byte = 0 THEN 32 + target \div 256
           ELSE IF byte = 1 THEN target % 256
           ELSE IF byte = 2 THEN 0
           ELSE (IF slot = 0 THEN 0 ELSE 238)]

Snippets ==
    { << 128, 20, 128, 36, 128, 52 >>,          \* 8014 8024 8034
      << 0, 238 >>,                             \* 00EE on an empty stack
      << 175, 250, 255, 85 >>,                  \* AFFA FF55
      << 175, 254, 240, 51 >>,                  \* AFFE F033
      << 175, 250, 255, 101 >>,                 \* AFFA FF65
      << 175, 255, 208, 2 >>,                   \* AFFF D002
      << 31, 255 >>,                            \* 1FFF
      << 160, 0, 255, 85 >>,                    \* A000 FF55
      << 160, 77, 242, 51 >>,                   \* A04D F233
      << 0, 1 >>, << 81, 33 >>, << 129, 40 >>,  \* 0001 5121 8128
      << 225, 158 >>, << 241, 10 >>,            \* E19E F10A
      << 193, 15 >>,                            \* C10F
      << 241, 21, 241, 24, 18, 8, 0, 0,         \* F115 F118 1208 0000
         34, 12, 178, 16, 0, 238 >> }           \* 220C B210 00EE

\* What the host may load, by description: nested calls of some depth, a snippet,
\* or 00E0 repeated up to some length (at, just over and far over the room
\* there is above the load address; the empty program).
ProgramChoices ==
    { [kind |-> "nested", n |-> d, bytes |-> << >>] : d \in 1..MaxDepth }
    \cup { [kind |-> "snippet", n |-> 0, bytes |-> b] : b \in Snippets }
    \cup { [kind |-> "repeat", n |-> len, bytes |-> << >>] :
               len \in {0, LOWER_MEMORY_BOUNDARY, MEMORY - LOWER_MEMORY_BOUNDARY,
                        MEMORY - LOWER_MEMORY_BOUNDARY + 1, 2 * MEMORY} }

Program(c) ==
    CASE c.kind = "nested" -> Padded(NestedCalls(c.n))
      [] c.kind = "snippet" -> Padded(c.bytes)
      [] c.kind = "repeat" -> Repeat(0, 224, c.n)

RegisterInputs == { << 5, 10, 10, 10, 4, 6, 7, 8, 9, 10, 11, 12, 13, 14, 15, 16 >> }

Keys == {4}

\* The bytes Cxnn may draw.
RandomBytes == {0, 170, 255}

RandomChoices(opcode) == IF opcode \div 4096 = 12 THEN RandomBytes ELSE {0}

\* ---------------------------------------------------------------- actions
Init ==
    /\ chip8 = new
    /\ panicked = FALSE
    /\ run_state = "idle"
    /\ load_result = "none"
    /\ last_program = << >>
    /\ overflow_checks \in BOOLEAN
    /\ last_opcode = 0
    /\ steps = 0
    /\ keypad_call = [op |-> "none", key |-> NoKey]
    /\ before = chip8
    /\ counted = 0
    /\ pending = << >>
    /\ sprite_call = NoSprite

\* The host can call into the machine: no panic has unwound it and control is
\* not inside run().
Idle == ~panicked /\ run_state # "looping"

LoadProgram(program) ==
    /\ Idle
    /\ LET res == load_into_memory(chip8, program)
       IN /\ chip8' = res.m
          /\ load_result' = IF res.ok THEN "Ok" ELSE "ProgramTooLarge"
    /\ last_program' = program
    /\ run_state' = "idle"
    /\ UNCHANGED << panicked, overflow_checks, last_opcode, steps, keypad_call, before, counted, pending, sprite_call >>

PopulateRegister(data) ==
    /\ Idle
    /\ LET res == populate_register(chip8, data)
       IN /\ chip8' = res.m
          /\ panicked' = res.panic
    /\ run_state' = "idle"
    /\ UNCHANGED << load_result, last_program, overflow_checks, last_opcode, steps,
                    keypad_call, before, counted, pending, sprite_call >>

Keypress(key) ==
    /\ Idle
    /\ chip8' = [chip8 EXCEPT !.keyboard = keypress(@, key)]
    /\ run_state' = "idle"
    /\ UNCHANGED << panicked, load_result, last_program, overflow_checks, last_opcode,
                    steps, keypad_call, before, counted, pending, sprite_call >>

\* The calls that have not returned, after an instruction at address at.
Outstanding(calls, at, op, panic) ==
    IF panic THEN calls
    ELSE IF op \div 4096 = 2 THEN Append(calls, at)
    ELSE IF op = 238 /\ Len(calls) > 0 THEN SubSeq(calls, 1, Len(calls) - 1)
    ELSE calls

\* pub fn execute_instruction, called with an opcode of the caller's choice.
ExecuteInstruction(op) ==
    /\ Idle
    /\ \E r \in RandomChoices(op), key \in TakeChoices(chip8.keyboard) :
          LET res == execute_instruction(chip8, op, r, key)
          IN /\ chip8' = res.m
             /\ panicked' = res.panic
             /\ pending' = Outstanding(pending, chip8.pc, op, res.panic)
    /\ last_opcode' = op
    /\ steps' = steps + 1
    /\ before' = chip8
    /\ run_state' = "idle"
    /\ UNCHANGED << load_result, last_program, overflow_checks, keypad_call, counted,
                    sprite_call >>

\* A fetch that steps over the halt sentinel.
FetchExecuteAdvancing(r, key) ==
    LET f == read_opcode(chip8)
    IN IF f.panic THEN [m |-> chip8, panic |-> TRUE, executed |-> FALSE]
       ELSE IF f.opcode # 0
       THEN LET e == execute_instruction(chip8, f.opcode, r, key)
            IN [m |-> e.m, panic |-> e.panic, executed |-> TRUE]
       ELSE [m |-> [chip8 EXCEPT !.pc = @ + 2], panic |-> FALSE, executed |-> FALSE]

\* One fetch and, unless it is the halt sentinel, one execute.
FetchExecute(r, key) ==
    LET f == read_opcode(chip8)
    IN IF f.panic THEN [m |-> chip8, panic |-> TRUE, executed |-> FALSE]
       ELSE IF f.opcode # 0
       THEN LET e == execute_instruction(chip8, f.opcode, r, key)
            IN [m |-> e.m, panic |-> e.panic, executed |-> TRUE]
       ELSE [m |-> chip8, panic |-> FALSE, executed |-> FALSE]

Fetched == read_opcode(chip8).opcode

ExecuteSingleInstruction ==
    /\ Idle
    /\ steps < MaxSteps
    /\ \E r \in RandomChoices(Fetched), key \in TakeChoices(chip8.keyboard) :
          LET res == FetchExecute(r, key)
          IN /\ chip8' = res.m
             /\ panicked' = res.panic
             /\ last_opcode' = IF res.executed THEN Fetched ELSE last_opcode
             /\ steps' = IF res.executed THEN steps + 1 ELSE steps
             /\ before' = IF res.executed THEN chip8 ELSE before
             /\ pending' = IF res.executed
                           THEN Outstanding(pending, chip8.pc, Fetched, res.panic)
                           ELSE pending
    /\ run_state' = "idle"
    /\ UNCHANGED << load_result, last_program, overflow_checks, keypad_call, counted,
                    sprite_call >>

\* One turn of the loop of Chip8::run; the first one enters the loop.
Run ==
    /\ ~panicked
    /\ steps < MaxSteps
    /\ \E r \in RandomChoices(Fetched), key \in TakeChoices(chip8.keyboard) :
          LET res == FetchExecute(r, key)
          IN /\ chip8' = res.m
             /\ panicked' = res.panic
             /\ last_opcode' = IF res.executed THEN Fetched ELSE last_opcode
             /\ steps' = IF res.executed THEN steps + 1 ELSE steps
             /\ before' = IF res.executed THEN chip8 ELSE before
             /\ pending' = IF res.executed
                           THEN Outstanding(pending, chip8.pc, Fetched, res.panic)
                           ELSE pending
             /\ run_state' = IF ~res.panic /\ ~res.executed THEN "returned"
                             ELSE "looping"
    /\ UNCHANGED << load_result, last_program, overflow_checks, keypad_call, counted,
                    sprite_call >>

\* The host sets a fresh machine up (one program, the registers) before the
\* first instruction executes, then runs it or steps through it; keys may be
\* pressed between steps.
SettingUp == steps = 0

LoadOnce(program) == SettingUp /\ load_result # "Ok" /\ LoadProgram(program)

Setup(data) == SettingUp /\ PopulateRegister(data)

Next ==
    \/ \E c \in ProgramChoices : LoadOnce(Program(c))
    \/ \E data \in RegisterInputs : Setup(data)
    \/ \E key \in Keys : Keypress(key)
    \/ ExecuteSingleInstruction
    \/ Run

Spec == Init /\ [][Next]_vars

\* The loader alone: programs loaded one after another into the same machine.
LoadChoices ==
    { c \in ProgramChoices : /\ c.kind = "nested" => c.n = 1
                             /\ c.kind = "snippet" => Len(c.bytes) >= 4 }

NextLoad == \E c \in LoadChoices : LoadProgram(Program(c))

SpecLoad == Init /\ [][NextLoad]_vars

\* The keypad alone: the host presses keys and takes them back, as a host
\* input layer may; at most MaxHeld keys are put into the set.
KeypadKeys == 0..15

KeypadPress(key) ==
    /\ Idle
    /\ Cardinality(keypress(chip8.keyboard, key)) <= MaxHeld
    /\ chip8' = [chip8 EXCEPT !.keyboard = keypress(@, key)]
    /\ keypad_call' = [op |-> "press", key |-> key]
    /\ UNCHANGED << panicked, run_state, load_result, last_program, overflow_checks,
                    last_opcode, steps, before, counted, pending, sprite_call >>

KeypadTake ==
    /\ Idle
    /\ \E key \in TakeChoices(chip8.keyboard) :
          LET t == take_keypress(chip8.keyboard, key)
          IN /\ chip8' = [chip8 EXCEPT !.keyboard = t.keyboard]
             /\ keypad_call' = [op |-> "take", key |-> t.key]
    /\ UNCHANGED << panicked, run_state, load_result, last_program, overflow_checks,
                    last_opcode, steps, before, counted, pending, sprite_call >>

NextKeypad ==
    \/ \E key \in KeypadKeys : KeypadPress(key)
    \/ KeypadTake

SpecKeypad == Init /\ [][NextKeypad]_vars

\* The arithmetic alone: one of 8xy4, 8xy5, 8xy7 and Fx1E on a machine whose
\* registers and index register hold values earlier instructions may have
\* left there (6xnn any byte; Annn and Fx1E the index values).
ArithValues == {0, 1, 10, 127, 128, 186, 204, 255}

ArithFlags == {0, 1, 200}

ArithIs == {10, 4090, 4095, 4100}

ArithXs == {0, 1, 15}

ArithOpcodes ==
    { 8 * 4096 + x * 256 + y * 16 + n : x \in ArithXs, y \in ArithXs, n \in {4, 5, 7} }
    \cup { 15 * 4096 + x * 256 + 30 : x \in ArithXs }

InitArith ==
    /\ \E a \in ArithValues, b \in ArithValues, f \in ArithFlags, i0 \in ArithIs :
          chip8 = [new EXCEPT !.register = [r \in 0..(REGISTER - 1) |->
                                              CASE r = 0 -> a
                                                [] r = 1 -> b
                                                [] r = 15 -> f
                                                [] OTHER -> 0],
                              !.i = i0]
    /\ panicked = FALSE
    /\ run_state = "idle"
    /\ load_result = "none"
    /\ last_program = << >>
    /\ overflow_checks \in BOOLEAN
    /\ last_opcode = 0
    /\ steps = 0
    /\ keypad_call = [op |-> "none", key |-> NoKey]
    /\ before = chip8
    /\ counted = 0
    /\ pending = << >>
    /\ sprite_call = NoSprite

NextArith == \E op \in ArithOpcodes : SettingUp /\ ExecuteInstruction(op)

SpecArith == InitArith /\ [][NextArith]_vars

\* One instruction alone, of every kind the dispatch lists but the call, the
\* return and the key skips, on a machine whose registers and timers hold
\* values earlier instructions may have left there and on whose keypad a key
\* may have been pressed.
StepValues == {0, 1, 51, 52, 170, 186, 255}

StepOthers == {1, 170}

StepFlags == {0, 1}

StepTimers == {0, 3}

StepXs == {0, 1, 15}

StepNNs == {0, 1, 170, 255}

StepAddrs == {0, 1802, 4095}

StepHeights == {0, 2, 5}

StepOpcodes ==
    { g * 4096 + x * 256 + nn : g \in {3, 4, 6, 7, 12}, x \in StepXs, nn \in StepNNs }
    \cup { g * 4096 + x * 256 + y * 16 : g \in {5, 9}, x \in StepXs, y \in StepXs }
    \cup { g * 4096 + nnn : g \in {1, 10, 11}, nnn \in StepAddrs }
    \cup { 8 * 4096 + x * 256 + y * 16 + n :
               x \in StepXs, y \in StepXs, n \in (0..7) \cup {14} }
    \cup { 13 * 4096 + x * 256 + y * 16 + n :
               x \in StepXs, y \in StepXs, n \in StepHeights }
    \cup { 15 * 4096 + x * 256 + nn :
               x \in StepXs, nn \in {7, 10, 21, 24, 30, 41, 51, 85, 101} }
    \cup { 224 }

InitStep ==
    /\ \E a \in StepValues, b \in StepOthers, f \in StepFlags, t \in StepTimers :
          chip8 = [new EXCEPT !.register = [r \in 0..(REGISTER - 1) |->
                                              CASE r = 0 -> a
                                                [] r = 1 -> b
                                                [] r = 15 -> f
                                                [] OTHER -> 0],
                              !.delay_timer = t,
                              !.sound_timer = t]
    /\ panicked = FALSE
    /\ run_state = "idle"
    /\ load_result = "none"
    /\ last_program = << >>
    /\ overflow_checks \in BOOLEAN
    /\ last_opcode = 0
    /\ steps = 0
    /\ keypad_call = [op |-> "none", key |-> NoKey]
    /\ before = chip8
    /\ counted = 0
    /\ pending = << >>
    /\ sprite_call = NoSprite

NextStep ==
    \/ \E key \in Keys : SettingUp /\ Keypress(key)
    \/ \E op \in StepOpcodes : SettingUp /\ ExecuteInstruction(op)

SpecStep == InitStep /\ [][NextStep]_vars

\* The display alone: up to MaxDraws instructions, each a Dxyn or 00E0, on a
\* machine whose coordinate registers, VF and I hold values earlier
\* instructions may have left there.  The sprites are the glyph at 0, the
\* zero bytes at 80 and the last two bytes of memory.
DrawColumns == {10, 61, 250}

DrawLines == {3, 30}

DrawFlag == 9

DrawIs == {0, 80, 4094}

DrawHeights == {0, 2, 5}

DrawOpcodes ==
    { 13 * 4096 + xy * 16 + n : xy \in {1, 16, 241, 15}, n \in DrawHeights }
    \cup { 224 }

InitDraw ==
    /\ \E a \in DrawColumns, b \in DrawLines, i0 \in DrawIs :
          chip8 = [new EXCEPT !.register = [r \in 0..(REGISTER - 1) |->
                                              CASE r = 0 -> a
                                                [] r = 1 -> b
                                                [] r = 15 -> DrawFlag
                                                [] OTHER -> 0],
                              !.i = i0]
    /\ panicked = FALSE
    /\ run_state = "idle"
    /\ load_result = "none"
    /\ last_program = << >>
    /\ overflow_checks \in BOOLEAN
    /\ last_opcode = 0
    /\ steps = 0
    /\ keypad_call = [op |-> "none", key |-> NoKey]
    /\ before = chip8
    /\ counted = 0
    /\ pending = << >>
    /\ sprite_call = NoSprite

NextDraw == \E op \in DrawOpcodes : steps < MaxDraws /\ ExecuteInstruction(op)

SpecDraw == InitDraw /\ [][NextDraw]_vars

\* The pixel count alone: how_many_ones() called on a display that earlier
\* draws have left with its first k pixels, line by line, set.
CountFills == (0..8) \cup (248..264) \cup (508..516) \cup (2040..2048)

Filled(k) ==
    [y \in 0..(SCREEN_HEIGHT - 1) |->
        [x \in 0..(SCREEN_WIDTH - 1) |->
            IF y * SCREEN_WIDTH + x < k THEN PIXEL_ON ELSE PIXEL_OFF]]

InitCount ==
    /\ \E k \in CountFills : chip8 = [new EXCEPT !.screen = Filled(k)]
    /\ panicked = FALSE
    /\ run_state = "idle"
    /\ load_result = "none"
    /\ last_program = << >>
    /\ overflow_checks \in BOOLEAN
    /\ last_opcode = 0
    /\ steps = 0
    /\ keypad_call = [op |-> "none", key |-> NoKey]
    /\ before = chip8
    /\ counted = 0
    /\ pending = << >>
    /\ sprite_call = NoSprite

HowManyOnes ==
    /\ Idle
    /\ LET res == how_many_ones(chip8.screen)
       IN /\ panicked' = res.panic
          /\ counted' = res.value
    /\ UNCHANGED << chip8, run_state, load_result, last_program, overflow_checks,
                    last_opcode, steps, keypad_call, before, pending, sprite_call >>

NextCount == HowManyOnes

SpecCount == InitCount /\ [][NextCount]_vars

\* The register set-up alone: populate_register called, any number of times,
\* with vectors of no, one, four, sixteen and seventeen values.
PopulateInputs ==
    { << >>, << 7 >>, << 5, 10, 10, 10 >>,
      << 5, 10, 10, 10, 4, 6, 7, 8, 9, 10, 11, 12, 13, 14, 15, 16 >>,
      << 1, 2, 3, 4, 5, 6, 7, 8, 9, 10, 11, 12, 13, 14, 15, 16, 17 >> }

NextPopulate == \E data \in PopulateInputs : PopulateRegister(data)

SpecPopulate == InitStep /\ [][NextPopulate]_vars

\* The display alone: draw_sprite_at_location called directly, a few times in
\* a row, on a display that starts blank.  The rows are one low bit (0x10),
\* two bits four columns apart (0x90) and all eight; the columns are the left
\* edge, four short of the right edge and three short of the u8 range.
SpriteRows == {16, 144, 255}
SpriteColumns == {0, 60, 253}
SpriteLines == {31, 32}

DrawSpriteAtLocation(pixel, x_coord, y_coord) ==
    /\ Idle
    /\ sprite_call.calls < MaxSprites
    /\ LET d == draw_sprite_at_location(chip8, pixel, x_coord, y_coord)
       IN /\ chip8' = d.m
          /\ panicked' = d.panic
          /\ sprite_call' = [pixel |-> pixel, x_coord |-> x_coord, y_coord |-> y_coord,
                             returned |-> d.collision,
                             calls |-> sprite_call.calls + 1]
    /\ before' = chip8
    /\ UNCHANGED << run_state, load_result, last_program, overflow_checks,
                    last_opcode, steps, keypad_call, counted, pending >>

NextSprite ==
    \E pixel \in SpriteRows, x_coord \in SpriteColumns, y_coord \in SpriteLines :
        DrawSpriteAtLocation(pixel, x_coord, y_coord)

SpecSprite == Init /\ [][NextSprite]_vars

\* Memory stores and loads alone: at most MaxStores of Fx33, Fx55 and Fx65 in
\* a row on a machine whose registers all differ and whose I is the font,
\* free memory, or one of the last bytes of memory.
StoreValues == {0, 9, 123, 255}
StoreIs == {0, 600, 4093, 4094}
StoreXs == {0, 2, 15}

StoreOpcodes == { 61440 + x * 256 + nn : x \in StoreXs, nn \in {51, 85, 101} }

InitStore ==
    /\ \E a \in StoreValues, i \in StoreIs :
          chip8 = [new EXCEPT !.register = [r \in 0..(REGISTER - 1) |->
                                              CASE r = 0 -> a
                                                [] r = 1 -> 170
                                                [] OTHER -> 16 + r],
                              !.i = i]
    /\ panicked = FALSE
    /\ run_state = "idle"
    /\ load_result = "none"
    /\ last_program = << >>
    /\ overflow_checks \in BOOLEAN
    /\ last_opcode = 0
    /\ steps = 0
    /\ keypad_call = [op |-> "none", key |-> NoKey]
    /\ before = chip8
    /\ counted = 0
    /\ pending = << >>
    /\ sprite_call = NoSprite

NextStore ==
    \E op \in StoreOpcodes : steps < MaxStores /\ ExecuteInstruction(op)

SpecStore == InitStore /\ [][NextStore]_vars

\* Waiting for a key: programs that reach an Fx0A (at once, or after setting
\* the delay timer) and one that halts without waiting, run to the end or
\* stepped through, with keys pressed while no run() is in progress.
WaitPrograms ==
    { << 241, 10 >>,                            \* F10A
      << 96, 5, 240, 21, 241, 10, 113, 1 >>,    \* 6005 F015 F10A 7101
      << 96, 5, 240, 21 >> }                    \* 6005 F015

NextWait ==
    \/ \E b \in WaitPrograms : LoadOnce(Padded(b))
    \/ \E key \in Keys : Keypress(key)
    \/ ExecuteSingleInstruction
    \/ Run

SpecWait == Init /\ [][NextWait]_vars

\* Drawing at the edges of the display: one- and two-row sprites from the
\* font (glyph 0 at I = 0: 0xF0, 0x90; the tail of glyph 4 at I = 23: 0x10,
\* 0x10) at columns and lines next to the right and bottom edge and next to
\* the end of the u8 range.
EdgeColumns == {0, 57, 60, 61, 250, 253}
EdgeLines == {3, 30, 31, 32}
EdgeIs == {0, 23}
EdgeOpcodes == {53265, 53266}                   \* D011, D012

InitEdge ==
    /\ \E a \in EdgeColumns, b \in EdgeLines, i0 \in EdgeIs :
          chip8 = [new EXCEPT !.register = [r \in 0..(REGISTER - 1) |->
                                              CASE r = 0 -> a
                                                [] r = 1 -> b
                                                [] OTHER -> 0],
                              !.i = i0]
    /\ panicked = FALSE
    /\ run_state = "idle"
    /\ load_result = "none"
    /\ last_program = << >>
    /\ overflow_checks \in BOOLEAN
    /\ last_opcode = 0
    /\ steps = 0
    /\ keypad_call = [op |-> "none", key |-> NoKey]
    /\ before = chip8
    /\ counted = 0
    /\ pending = << >>
    /\ sprite_call = NoSprite

NextEdge == \E op \in EdgeOpcodes : steps < MaxDraws /\ ExecuteInstruction(op)

SpecEdge == InitEdge /\ [][NextEdge]_vars

\* The call stack alone: calls (2300), as many as the stack takes, with
\* returns, jumps (1300), register loads (6005), clears (00E0) and timer
\* loads (F015) between them in any order; an instruction that is not a call
\* is allowed while the instructions executed exceed the calls outstanding by
\* less than MaxDetours.
CallOpcodes == {8960, 238, 4864, 24581, 224, 61461}

NextCalls ==
    \E op \in CallOpcodes :
        /\ op = 8960 \/ steps - Len(pending) < MaxDetours
        /\ ExecuteInstruction(op)

SpecCalls == Init /\ [][NextCalls]_vars

\* The decoder alone: one call of execute_instruction on a machine that was
\* set up but has not executed anything.
DecodeXs == {0, 1, 4, 15}

DecodeOpcodes ==
    { g * 4096 + x * 256 + yn : g \in {0, 5, 8, 9, 14, 15}, x \in DecodeXs, yn \in 0..255 }
    \cup { g * 4096 + nnn : g \in {1, 2, 3, 4, 6, 7, 10, 11, 12, 13},
                            nnn \in {0, 4, 10, 255, 1802, 4095} }

NextDecode ==
    \/ \E data \in RegisterInputs : Setup(data)
    \/ \E key \in Keys : SettingUp /\ Keypress(key)
    \/ \E op \in DecodeOpcodes : SettingUp /\ ExecuteInstruction(op)

SpecDecode == Init /\ [][NextDecode]_vars

\* ---------------------------------------------------------------- properties
\* C1: load_program on a program of length L succeeds if and only if
\* L <= 3584; for every L > 3584 it returns ProgramTooLarge and every memory
\* byte is the same as before the call.  (Every step of SpecLoad is a load.)
C1_LoadSucceedsIffFits ==
    [][ /\ (load_result' = "Ok") <=> (Len(last_program') <= 3584)
        /\ Len(last_program') > 3584
           => load_result' = "ProgramTooLarge" /\ chip8'.memory = chip8.memory ]_vars

C1_Witness ==
    /\ load_result = "ProgramTooLarge"
    /\ Len(last_program) = 3585
    /\ chip8.memory[LOWER_MEMORY_BOUNDARY] # 0

\* C2: a successful load_program(bytes) sets memory[512 + k] = bytes[k] for
\* every k < len(bytes) and leaves every other byte unchanged, below 512 and
\* from 512 + len(bytes) upward.
C2_LoadCopiesAndFrames ==
    [][ load_result' = "Ok"
        => \A a \in 0..4095 :
              chip8'.memory[a] =
                 IF a >= 512 /\ a < 512 + Len(last_program')
                 THEN last_program'[a - 512 + 1]
                 ELSE chip8.memory[a] ]_vars

C2_Witness ==
    /\ load_result = "Ok"
    /\ Len(last_program) = PadLen
    /\ chip8.memory[LOWER_MEMORY_BOUNDARY] = 34
    /\ chip8.memory[MEMORY - 1] = 224
    /\ chip8.memory[0] = 240

\* C3: immediately after new(), PC = 512, the registers, I, the stack, the
\* stack pointer and both timers are 0, every pixel is 0, no key is
\* outstanding, memory[a] is the a-th byte of the font table for every a in
\* 0..79 and every byte from 80 upward is 0.
C3_NewMachine ==
    Init =>
       /\ chip8.pc = 512
       /\ \A r \in 0..15 : chip8.register[r] = 0
       /\ chip8.i = 0
       /\ \A k \in 0..15 : chip8.stack[k] = 0
       /\ chip8.sp = 0
       /\ chip8.delay_timer = 0 /\ chip8.sound_timer = 0
       /\ \A y \in 0..31 : \A x \in 0..63 : chip8.screen[y][x] = 0
       /\ ~any_key_pressed(chip8.keyboard)
       /\ \A a \in 0..79 : chip8.memory[a] = CHIP8_FONTSET[a + 1]
       /\ \A a \in 80..4095 : chip8.memory[a] = 0

\* A step in which execute_instruction was given an opcode.
Executed == steps' = steps + 1

\* The host loaded this program (and nothing after it).
Loaded(bytes) == load_result = "Ok" /\ last_program = Padded(bytes)

\* C4: in every reachable state bytes 0..79 equal what new() wrote there.
C4_FontNeverChanges == \A a \in 0..79 : chip8.memory[a] = new.memory[a]

\* C5: in the program of d nested calls (d in 1..16), each 00EE resumes at the
\* instruction after the call that made the current depth (the call in slot
\* sp - 1, at 512 + 4 (sp - 1)) with the stack one shallower; when run() returns,
\* sp = 0, PC is the outermost call + 2 and 2 d instructions have executed.
C5_NestedCallsReturn ==
    [][ \A d \in 1..16 :
           Loaded(NestedCalls(d))
           => /\ (Executed /\ last_opcode' = 238 /\ ~panicked')
                 => /\ chip8'.sp = chip8.sp - 1
                    /\ chip8'.pc = 512 + 4 * (chip8.sp - 1) + 2
              /\ run_state' = "returned"
                 => chip8'.sp = 0 /\ chip8'.pc = 514 /\ steps' = 2 * d ]_vars

C5_Witness ==
    /\ Loaded(NestedCalls(16))
    /\ run_state = "returned"
    /\ steps = 32
    /\ chip8.sp = 0
    /\ chip8.pc = 514
    /\ chip8.stack[15] = 512 + 4 * 15

\* C6: 2nnn with sp = 16 is a fatal fault that stores nothing and leaves sp and
\* PC as they were, and nothing executes after it; with sp < 16 the call
\* succeeds (sp + 1, PC = nnn).
C6_CallOnFullStackFaults ==
    [][ /\ ~panicked
        /\ (Executed /\ last_opcode' \div 4096 = 2)
           => IF chip8.sp = 16
              THEN panicked' /\ chip8' = chip8
              ELSE /\ ~panicked'
                   /\ chip8'.sp = chip8.sp + 1
                   /\ chip8'.pc = last_opcode' % 4096
                   /\ chip8.sp < 16 ]_vars

C6_Witness ==
    /\ panicked
    /\ chip8.sp = 16
    /\ last_opcode \div 4096 = 2
    /\ chip8.stack[15] = 512 + 4 * 15

\* C7: 00EE with sp = 0 is a fatal fault that leaves PC, sp and everything else
\* as it was.
C7_ReturnOnEmptyStackFaults ==
    [][ (Executed /\ last_opcode' = 238 /\ chip8.sp = 0)
        => panicked' /\ chip8' = chip8 ]_vars

C7_Witness ==
    /\ panicked
    /\ last_opcode = 238
    /\ chip8.sp = 0
    /\ chip8.pc = 512

\* The opcodes the dispatch table does not list.
Unlisted(op) ==
    LET g == op \div 4096
        n == op % 16
        nn == op % 256
    IN \/ g = 0 /\ op \notin {0, 224, 238}
       \/ g \in {5, 9} /\ n # 0
       \/ g = 8 /\ n \in {8, 9, 10, 11, 12, 13, 15}
       \/ g = 14 /\ nn \notin {158, 161}
       \/ g = 15 /\ nn \notin {7, 10, 21, 24, 30, 41, 51, 85, 101}

\* C8: an opcode that matches no row of the dispatch table is a fatal fault:
\* the whole machine state is left unchanged and nothing executes after it.
C8_UnlistedOpcodeFaults ==
    [][ /\ ~panicked
        /\ (Executed /\ Unlisted(last_opcode')) => panicked' /\ chip8' = chip8 ]_vars

C8_Witness ==
    /\ panicked
    /\ last_opcode = 33071
    /\ chip8.register[1] = 10
    /\ chip8.keyboard = {4}

\* A fetch-and-execute step, single or as a turn of run().
Step == ExecuteSingleInstruction \/ Run

\* The instruction would reach an address >= 4096 through I.
Beyond(m, op) ==
    LET g == op \div 4096
        x == (op \div 256) % 16
        n == op % 16
        nn == op % 256
    IN \/ g = 13 /\ n >= 1 /\ m.i + n - 1 >= 4096
       \/ g = 15 /\ nn = 51 /\ m.i + 2 >= 4096
       \/ g = 15 /\ nn \in {85, 101} /\ m.i + x >= 4096

\* C9 as claimed: a step that would touch an address >= 4096 (a fetch with
\* PC >= 4095, or Dxyn/Fx33/Fx55/Fx65 reaching past the end through I) is a
\* fatal fault that changes no memory byte.
C9_FaultLeavesNoWrites ==
    [][ /\ (Step /\ chip8.pc >= 4095) => panicked' /\ chip8' = chip8
        /\ (Executed /\ Beyond(chip8, last_opcode'))
           => panicked' /\ chip8'.memory = chip8.memory ]_vars

\* What Fx33 or Fx55 stores at I + k.
StoredAt(m, op, k) ==
    LET vx == m.register[(op \div 256) % 16]
    IN IF op % 256 = 85 THEN m.register[k]
       ELSE IF k = 0 THEN vx \div 100
       ELSE IF k = 1 THEN (vx \div 10) % 10
       ELSE vx % 10

\* C9 as amended: such a step is a fatal fault and nothing is written or read
\* at a wrapped address, but what the instruction did below 4096 before the
\* faulting access stays: Fx33 and Fx55 have stored their bytes from I up to
\* 4095, Fx65 has loaded the registers that memory below 4096 covers, and
\* every other memory byte is as before.
C9_FaultKeepsEarlierWrites ==
    [][ /\ (Step /\ chip8.pc >= 4095) => panicked' /\ chip8' = chip8
        /\ (Executed /\ Beyond(chip8, last_opcode'))
           => LET op == last_opcode'
                  stores == op \div 4096 = 15 /\ op % 256 \in {51, 85}
                  fills == op \div 4096 = 15 /\ op % 256 = 101
              IN /\ panicked'
                 /\ \A a \in 0..4095 :
                       chip8'.memory[a] =
                          IF stores /\ a >= chip8.i
                          THEN StoredAt(chip8, op, a - chip8.i)
                          ELSE chip8.memory[a]
                 /\ fills => \A k \in 0..15 :
                       chip8'.register[k] =
                          IF chip8.i + k < 4096
                          THEN chip8.memory[chip8.i + k]
                          ELSE chip8.register[k]
                 /\ chip8'.pc = chip8.pc /\ chip8'.i = chip8.i ]_vars

C9_Witness ==
    /\ panicked
    /\ last_opcode = 65365
    /\ chip8.i = 4090
    /\ chip8.memory[4090] = 5
    /\ chip8.memory[4095] = 6

\* C10: a turn of run() returns exactly when the two bytes at PC are zero, and
\* it then leaves the machine as it was, so memory[PC] = memory[PC + 1] = 0
\* after the return; 8014 8024 8034 run with V0 = 5, V1 = V2 = V3 = 10 ends
\* with V0 = 35 and PC = 512 + 6 after exactly three instructions.
C10_RunReturnsAtHaltSentinel ==
    [][ Run
        => /\ (run_state' = "returned")
              <=> /\ chip8.pc < 4095
                  /\ chip8.memory[chip8.pc] = 0
                  /\ chip8.memory[chip8.pc + 1] = 0
           /\ run_state' = "returned"
              => /\ chip8' = chip8
                 /\ steps' = steps
                 /\ chip8'.memory[chip8'.pc] = 0
                 /\ chip8'.memory[chip8'.pc + 1] = 0
           /\ (run_state' = "returned" /\ Loaded(<<128, 20, 128, 36, 128, 52>>)
               /\ chip8'.register[1] = 10)
              => /\ chip8'.register[0] = 35
                 /\ chip8'.pc = 518
                 /\ steps' = 3 ]_vars

C10_Witness ==
    /\ run_state = "returned"
    /\ Loaded(<<128, 20, 128, 36, 128, 52>>)
    /\ chip8.register[0] = 35
    /\ chip8.pc = 518
    /\ steps = 3

\* The fields of an opcode.
OpGroup(op) == op \div 4096

OpX(op) == (op \div 256) % 16

OpY(op) == (op \div 16) % 16

OpNN(op) == op % 256

\* An Fx0A that finds no key.
WaitsForKey(m, op) == OpGroup(op) = 15 /\ OpNN(op) = 10 /\ m.keyboard = {}

\* One tick of a timer.
Tick(t) == IF t > 0 THEN t - 1 ELSE 0

\* The timers as the instruction itself leaves them: Fx15 and Fx18 set one.
DelayBase(m, op) ==
    IF OpGroup(op) = 15 /\ OpNN(op) = 21 THEN m.register[OpX(op)] ELSE m.delay_timer

SoundBase(m, op) ==
    IF OpGroup(op) = 15 /\ OpNN(op) = 24 THEN m.register[OpX(op)] ELSE m.sound_timer

C12_WaitForKeyPolls ==
    [][ (Executed /\ OpGroup(last_opcode') = 15 /\ OpNN(last_opcode') = 10)
        => IF chip8.keyboard = {}
           THEN chip8' = chip8 /\ ~panicked'
           ELSE /\ chip8'.register[OpX(last_opcode')] \in chip8.keyboard
                /\ \A k \in 0..15 :
                      chip8.keyboard = {k} => chip8'.register[OpX(last_opcode')] = k
                /\ chip8'.keyboard = {}
                /\ chip8'.pc = chip8.pc + 2
                /\ ~panicked' ]_vars

C12_Witness ==
    /\ last_opcode = 61706
    /\ steps = 2
    /\ chip8.register[1] = 4
    /\ chip8.keyboard = {}
    /\ chip8.pc = 514

\* C13: the keypad holds at most one outstanding key: no two different keys
\* are reported pressed at once (a press overwrites the key before it).
C13_AtMostOneKey ==
    \A a, b \in 0..15 :
        (was_key_pressed(chip8.keyboard, a) /\ was_key_pressed(chip8.keyboard, b))
        => a = b

\* C14: a take that follows press(k) returns k and leaves no key pressed, a
\* take that follows a take returns none, and a key is reported pressed after
\* every press.
C14_PressThenTake ==
    [][ /\ (keypad_call.op = "press" /\ keypad_call'.op = "take")
           => /\ keypad_call'.key = keypad_call.key
              /\ ~any_key_pressed(chip8'.keyboard)
        /\ (keypad_call.op = "take" /\ keypad_call'.op = "take")
           => keypad_call'.key = NoKey
        /\ keypad_call'.op = "press" => any_key_pressed(chip8'.keyboard)
        /\ keypad_call'.op = "take" => ~any_key_pressed(chip8'.keyboard) ]_vars

\* C15: Ex9E skips the next instruction (PC + 4 instead of PC + 2) exactly when
\* the outstanding key equals the value of Vx, and leaves no key outstanding
\* either way.
C15_SkipIfKeyEqualsVx ==
    [][ (Executed /\ OpGroup(last_opcode') = 14 /\ OpNN(last_opcode') = 158)
        => /\ ~panicked'
           /\ chip8'.pc = chip8.pc + (IF chip8.register[OpX(last_opcode')] \in chip8.keyboard
                                      THEN 4 ELSE 2)
           /\ chip8'.keyboard = {} ]_vars

\* C16: ExA1 skips the next instruction exactly when no outstanding key equals
\* the value of Vx, and leaves the keypad as it was.
C16_SkipIfKeyNotVx ==
    [][ (Executed /\ OpGroup(last_opcode') = 14 /\ OpNN(last_opcode') = 161)
        => /\ ~panicked'
           /\ chip8'.pc = chip8.pc + (IF chip8.register[OpX(last_opcode')] \notin chip8.keyboard
                                      THEN 4 ELSE 2)
           /\ chip8'.keyboard = chip8.keyboard ]_vars

\* An executed 8xyN.
Executes8(n) == Executed /\ OpGroup(last_opcode') = 8 /\ last_opcode' % 16 = n

\* C17: after 8xy4, VF is 1 if Vx + Vy (as they were) exceeds 255 and 0
\* otherwise, and for x # 15 Vx is (Vx + Vy) mod 256.
C17_AddWithCarry ==
    [][ Executes8(4)
        => LET x == OpX(last_opcode')
               sum == chip8.register[x] + chip8.register[OpY(last_opcode')]
           IN /\ ~panicked'
              /\ chip8'.register[15] = IF sum > 255 THEN 1 ELSE 0
              /\ x # 15 => chip8'.register[x] = sum % 256 ]_vars

C17_Witness ==
    /\ last_opcode = 32788
    /\ chip8.register[0] = 134
    /\ chip8.register[1] = 204
    /\ chip8.register[15] = 1

C20_AddVxToI ==
    [][ (Executed /\ OpGroup(last_opcode') = 15 /\ OpNN(last_opcode') = 30)
        => LET sum == chip8.i + chip8.register[OpX(last_opcode')]
           IN /\ chip8'.i = sum
              /\ chip8'.register[15] = IF sum > 4095 THEN 1 ELSE 0 ]_vars

\* C21: after Fx29, for every value of Vx in 0..255, I is Vx * 5 computed
\* without 8-bit truncation and without a fault (Vx = 52 gives I = 260).
C21_FontAddress ==
    [][ (Executed /\ OpGroup(last_opcode') = 15 /\ OpNN(last_opcode') = 41)
        => /\ ~panicked'
           /\ chip8'.i = chip8.register[OpX(last_opcode')] * 5 ]_vars

\* C22: after 7xnn, Vx is (Vx + nn) mod 256 and every other register, VF
\* included, is as it was, also when the addition wraps.
C22_AddImmediate ==
    [][ (Executed /\ OpGroup(last_opcode') = 7)
        => LET x == OpX(last_opcode')
           IN /\ ~panicked'
              /\ chip8'.register[x] = (chip8.register[x] + OpNN(last_opcode')) % 256
              /\ \A r \in 0..15 : r # x => chip8'.register[r] = chip8.register[r] ]_vars

C22_Witness ==
    /\ last_opcode = 28842
    /\ chip8.register[0] = 100
    /\ chip8.register[1] = 170
    /\ chip8.register[15] = 0
    /\ chip8.pc = 514

\* C23: after 00E0, whatever the display held, every pixel is 0 and
\* how_many_ones() is 0, PC has advanced by exactly 2, and the registers, I,
\* the stack and memory are as they were.
C23_ClearScreen ==
    [][ (Executed /\ last_opcode' = 224)
        => /\ ~panicked'
           /\ \A y \in 0..31 : \A x \in 0..63 : chip8'.screen[y][x] = 0
           /\ how_many_ones(chip8'.screen) = [value |-> 0, panic |-> FALSE]
           /\ chip8'.pc = chip8.pc + 2
           /\ chip8'.register = chip8.register
           /\ chip8'.i = chip8.i
           /\ chip8'.stack = chip8.stack /\ chip8'.sp = chip8.sp
           /\ chip8'.memory = chip8.memory ]_vars

C23_Witness ==
    /\ last_opcode = 224
    /\ ~panicked
    /\ before.screen[31][10] = 1
    /\ chip8.screen = ScreenDefault
    /\ chip8.pc = 516

\* The second of two identical Dxyn in succession: the instruction executed
\* last was the same Dxyn, and I, Vx, Vy and the sprite bytes are as they were
\* before it; the coordinates are inside the display.
SecondDraw ==
    LET op == last_opcode'
        x == OpX(op)
        y == OpY(op)
    IN /\ Executed
       /\ OpGroup(op) = 13
       /\ steps >= 1 /\ last_opcode = op
       /\ before.i = chip8.i
       /\ before.register[x] = chip8.register[x]
       /\ before.register[y] = chip8.register[y]
       /\ before.memory = chip8.memory
       /\ chip8.register[x] < 64 /\ chip8.register[y] < 32

\* The set bits of the n sprite rows at I, as (row, bit) with bit 0 the most
\* significant.
SpriteBits(m, op) ==
    { rb \in (0..((op % 16) - 1)) \X (0..7) :
         m.i + rb[1] < 4096 /\ Bit(m.memory[m.i + rb[1]], 7 - rb[2]) = 1 }

\* The sprite at (Vx, Vy) has a set bit over a pixel of scr that is 0.
PaintsOn(scr, m, op) ==
    \E rb \in SpriteBits(m, op) :
        scr[m.register[OpY(op)] + rb[1]][m.register[OpX(op)] + rb[2]] = 0

\* C24 as claimed: the second of two identical draws at in-range coordinates
\* returns every pixel to its value before the first draw and reports a
\* collision (VF = 1).
C24_DrawTwiceAsClaimed ==
    [][ SecondDraw
        => /\ ~panicked'
           /\ chip8'.screen = before.screen
           /\ chip8'.register[15] = 1 ]_vars

\* C24 as amended: the second of two identical draws, the first of which
\* completed, returns every pixel to its value before the first draw; for
\* x, y # 15, VF is 1 after it if a set bit of the sprite lies over a pixel
\* that was 0 before the first draw, and 0 otherwise (a sprite without set
\* bits, or one whose set bits all lay over set pixels).
C24_DrawTwiceRestores ==
    [][ SecondDraw
        => /\ ~panicked'
           /\ chip8'.screen = before.screen
           /\ (OpX(last_opcode') # 15 /\ OpY(last_opcode') # 15)
              => chip8'.register[15] =
                    IF PaintsOn(before.screen, chip8, last_opcode') THEN 1 ELSE 0 ]_vars

C24_Witness ==
    /\ last_opcode = 53269
    /\ steps = 2
    /\ ~panicked
    /\ chip8.register[15] = 1
    /\ before.screen[3][10] = 1
    /\ before.screen[7][13] = 1
    /\ chip8.screen = ScreenDefault

\* The sprite at (Vx, Vy) has a set bit over a pixel of scr that is 1.
Collides(scr, m, op) ==
    \E rb \in SpriteBits(m, op) :
        scr[m.register[OpY(op)] + rb[1]][m.register[OpX(op)] + rb[2]] = 1

\* A Dxyn whose 8 x n box at (Vx, Vy) lies inside the display and whose n
\* sprite bytes lie inside memory, Vx and Vy being the register values before
\* the instruction.
DrawsInside(m, op) ==
    /\ OpGroup(op) = 13
    /\ m.register[OpX(op)] + 7 < 64
    /\ m.register[OpY(op)] + (op % 16) <= 32
    /\ m.i + (op % 16) <= 4096

\* C25: Dxyn, for every x and y in 0..15, XORs row r of the sprite at I onto
\* the display at column Vx and line Vy + r, Vx and Vy being the register
\* values before the instruction; afterwards VF is 1 if a set bit met a set
\* pixel and 0 otherwise (0 when n = 0), and I and memory are as they were.
C25_DrawSprite ==
    [][ (Executed /\ DrawsInside(chip8, last_opcode'))
        => LET op == last_opcode'
               vx == chip8.register[OpX(op)]
               vy == chip8.register[OpY(op)]
           IN /\ ~panicked'
              /\ \A l \in 0..31 : \A c \in 0..63 :
                    chip8'.screen[l][c] =
                       IF << l - vy, c - vx >> \in SpriteBits(chip8, op)
                       THEN 1 - chip8.screen[l][c]
                       ELSE chip8.screen[l][c]
              /\ chip8'.register[15] = IF Collides(chip8.screen, chip8, op) THEN 1 ELSE 0
              /\ chip8'.i = chip8.i
              /\ chip8'.memory = chip8.memory ]_vars

\* The number of pixels of the display that are 1.
PixelsSet(scr) == Cardinality({ p \in (0..31) \X (0..63) : scr[p[1]][p[2]] = 1 })

\* C26: how_many_ones() returns exactly the number of pixels that are 1, for
\* every display, from 0 up to 2048 set pixels, without truncation or fault.
\* (Every step of SpecCount is a call of how_many_ones.)
C26_CountSetPixels ==
    [][ ~panicked' /\ counted' = PixelsSet(chip8.screen) ]_vars

\* C27: populate_register(values) with at most 16 values sets register i to
\* values[i] for every i below their number and leaves the registers from
\* there to 15, PC, I, the stack, the timers and memory as they were.
C27_PopulateRegisters ==
    [][ \A data \in PopulateInputs :
           (Len(data) <= 16 /\ PopulateRegister(data))
           => /\ ~panicked'
              /\ \A r \in 0..15 :
                    chip8'.register[r] =
                       IF r < Len(data) THEN data[r + 1] ELSE chip8.register[r]
              /\ chip8'.pc = chip8.pc
              /\ chip8'.i = chip8.i
              /\ chip8'.stack = chip8.stack /\ chip8'.sp = chip8.sp
              /\ chip8'.delay_timer = chip8.delay_timer
              /\ chip8'.sound_timer = chip8.sound_timer
              /\ chip8'.memory = chip8.memory ]_vars

C27_Witness ==
    /\ ~panicked
    /\ chip8.register[0] = 5
    /\ chip8.register[2] = 10
    /\ chip8.register[3] = 10
    /\ chip8.register[4] = 0
    /\ chip8.register[15] = 1
    /\ chip8.delay_timer = 3

\* The condition a conditional-skip opcode tests.
SkipCondition(m, op) ==
    LET vx == m.register[OpX(op)]
        vy == m.register[OpY(op)]
    IN CASE OpGroup(op) = 3 -> vx = OpNN(op)
         [] OpGroup(op) = 4 -> vx # OpNN(op)
         [] OpGroup(op) = 5 -> vx = vy
         [] OpGroup(op) = 9 -> vx # vy

\* The opcode with the opposite test and the same operands: 3xnn and 4xnn,
\* 5xy0 and 9xy0.
SkipPartner(op) ==
    CASE OpGroup(op) = 3 -> op + 4096
      [] OpGroup(op) = 4 -> op - 4096
      [] OpGroup(op) = 5 -> op + 4 * 4096
      [] OpGroup(op) = 9 -> op - 4 * 4096

\* C28: a conditional skip sets PC to PC + 4 when its condition holds and to
\* PC + 2 otherwise and changes no register (3xnn: Vx = nn, 4xnn: Vx # nn,
\* 5xy0: Vx = Vy, 9xy0: Vx # Vy); on the same state the opcode with the
\* opposite test does the other of the two.
C28_ConditionalSkips ==
    [][ (Executed /\ OpGroup(last_opcode') \in {3, 4, 5, 9} /\ ~Unlisted(last_opcode'))
        => LET op == last_opcode'
               other == execute_instruction(chip8, SkipPartner(op), 0, NoKey)
           IN /\ ~panicked'
              /\ chip8'.pc = chip8.pc + (IF SkipCondition(chip8, op) THEN 4 ELSE 2)
              /\ chip8'.register = chip8.register
              /\ ~other.panic
              /\ other.m.pc = chip8.pc + (IF SkipCondition(chip8, op) THEN 2 ELSE 4) ]_vars

C28_Witness ==
    /\ last_opcode = 12458
    /\ ~panicked
    /\ chip8.register[0] = 170
    /\ chip8.pc = 516

\* C30: 1nnn sets PC to nnn and Bnnn sets PC to nnn + V0, not reduced modulo
\* 4096 and not followed by the advance of 2; both leave the registers, I, the
\* stack and the stack pointer as they were.
C30_Jumps ==
    [][ (Executed /\ OpGroup(last_opcode') \in {1, 11})
        => LET nnn == last_opcode' % 4096
           IN /\ ~panicked'
              /\ chip8'.pc = IF OpGroup(last_opcode') = 1 THEN nnn
                             ELSE nnn + chip8.register[0]
              /\ chip8'.register = chip8.register
              /\ chip8'.i = chip8.i
              /\ chip8'.stack = chip8.stack
              /\ chip8'.sp = chip8.sp ]_vars

C30_Witness ==
    /\ last_opcode = 49151
    /\ ~panicked
    /\ chip8.register[0] = 255
    /\ chip8.pc = 4350

\* The opcodes that are not a jump, call, return, skip, halt or blocked
\* key-wait: 00E0, 6xnn, 7xnn, 8xyN, Annn, Cxnn, Dxyn, Fx07, Fx0A with a key,
\* Fx15, Fx18, Fx1E, Fx29, Fx33, Fx55, Fx65.
FallsThrough(m, op) ==
    \/ op = 224
    \/ OpGroup(op) \in {6, 7, 10, 12, 13}
    \/ OpGroup(op) = 8 /\ ~Unlisted(op)
    \/ OpGroup(op) = 15 /\ OpNN(op) \in {7, 21, 24, 30, 41, 51, 85, 101}
    \/ OpGroup(op) = 15 /\ OpNN(op) = 10 /\ m.keyboard # {}

\* Those of them that can fault: Dxyn outside the display or memory, Fx1E and
\* Fx29 on an overflow, Fx33, Fx55 and Fx65 outside memory.
CanFault(op) ==
    \/ OpGroup(op) = 13
    \/ OpGroup(op) = 15 /\ OpNN(op) \in {30, 41, 51, 85, 101}

\* The machine after 6xnn or Annn if nothing but Vx or I and PC changes.
LoadedImmediate(m, op) ==
    IF OpGroup(op) = 6
    THEN [m EXCEPT !.pc = @ + 2, !.register[OpX(op)] = OpNN(op)]
    ELSE [m EXCEPT !.pc = @ + 2, !.i = op % 4096]

\* C29 as claimed: every such opcode that completes advances PC by exactly 2;
\* 6xnn sets Vx = nn and Annn sets I = nnn and nothing else changes.
C29_AdvanceAsClaimed ==
    [][ (Executed /\ FallsThrough(chip8, last_opcode') /\ ~panicked')
        => /\ chip8'.pc = chip8.pc + 2
           /\ OpGroup(last_opcode') \in {6, 10}
              => chip8' = LoadedImmediate(chip8, last_opcode') ]_vars

\* C29 as amended: every such opcode that completes advances PC by exactly 2,
\* one that faults leaves PC as it was, and only Dxyn, Fx1E, Fx29, Fx33, Fx55
\* and Fx65 can fault; 6xnn sets Vx = nn and Annn sets I = nnn, both timers
\* tick once and nothing else changes.
C29_AdvanceByTwo ==
    [][ (Executed /\ FallsThrough(chip8, last_opcode'))
        => /\ panicked' => CanFault(last_opcode') /\ chip8'.pc = chip8.pc
           /\ ~panicked' => chip8'.pc = chip8.pc + 2
           /\ OpGroup(last_opcode') \in {6, 10}
              => chip8' = [LoadedImmediate(chip8, last_opcode')
                              EXCEPT !.delay_timer = Tick(@),
                                     !.sound_timer = Tick(@)] ]_vars

C29_Witness ==
    /\ last_opcode = 24746
    /\ ~panicked
    /\ chip8.register[0] = 170
    /\ chip8.register[1] = 1
    /\ chip8.delay_timer = 2
    /\ chip8.pc = 514

\* C31: 2nnn executed with sp < 16 stores the address of the call instruction
\* itself (PC before the step, not PC + 2) in stack[sp], raises sp by one and
\* sets PC = nnn; every other stack entry is as it was.
C31_CallStoresOwnAddress ==
    [][ (Executed /\ OpGroup(last_opcode') = 2 /\ chip8.sp < 16)
        => /\ ~panicked'
           /\ chip8'.stack[chip8.sp] = chip8.pc
           /\ chip8'.sp = chip8.sp + 1
           /\ chip8'.pc = last_opcode' % 4096
           /\ \A k \in 0..15 : k # chip8.sp => chip8'.stack[k] = chip8.stack[k] ]_vars

C31_Witness ==
    /\ ~panicked
    /\ last_opcode = 8960
    /\ chip8.sp = 3
    /\ chip8.pc = 768
    /\ chip8.stack[0] = 512
    /\ chip8.stack[1] = 768
    /\ chip8.stack[2] = 770
    /\ before.sp = 2
    /\ before.pc = 770

\* The bit positions, counted from the most significant bit, at which a row
\* byte has a 1.
SetBits(pixel) == {b \in 0..7 : Bit(pixel, 7 - b) = 1}

\* The places (column, line) the set bits of the last direct call stand for.
Targets(c) == {<< c.x_coord + b, c.y_coord >> : b \in SetBits(c.pixel)}

OnGrid(t) == t[1] < SCREEN_WIDTH /\ t[2] < SCREEN_HEIGHT

\* The places at which two displays differ.
Toggled(old, now) ==
    {t \in (0..(SCREEN_WIDTH - 1)) \X (0..(SCREEN_HEIGHT - 1)) : old[t[2]][t[1]] # now[t[2]][t[1]]}

\* A direct call of draw_sprite_at_location has just been made.
SpriteDrawn == sprite_call'.calls = sprite_call.calls + 1

\* C32: a call of draw_sprite_at_location(row_byte, x, y) that completes
\* toggles exactly the pixels (x + b, y) of the set bits b of row_byte (b = 0
\* the most significant) and no other pixel, returns true iff one of those
\* pixels was on before the call, and leaves the collision flag false, so
\* that no later call sees an earlier collision.
C32_DrawSpriteRow ==
    [][ (SpriteDrawn /\ ~panicked')
        => /\ Toggled(chip8.screen, chip8'.screen) = Targets(sprite_call')
           /\ sprite_call'.returned
              <=> \E t \in Targets(sprite_call') :
                     OnGrid(t) /\ chip8.screen[t[2]][t[1]] = PIXEL_ON
           /\ ~chip8.collision
           /\ ~chip8'.collision ]_vars

\* C32 where no x + b leaves the u8 range: the same statement holds.
C32_DrawSpriteRowInRange ==
    [][ (SpriteDrawn /\ ~panicked'
         /\ \A t \in Targets(sprite_call') : t[1] < U8)
        => /\ Toggled(chip8.screen, chip8'.screen) = Targets(sprite_call')
           /\ sprite_call'.returned
              <=> \E t \in Targets(sprite_call') :
                     OnGrid(t) /\ chip8.screen[t[2]][t[1]] = PIXEL_ON
           /\ ~chip8.collision
           /\ ~chip8'.collision ]_vars

\* A call that completes and reports a collision.
C32_CollisionReturned ==
    /\ ~panicked
    /\ sprite_call = [pixel |-> 144, x_coord |-> 60, y_coord |-> 31,
                      returned |-> TRUE, calls |-> 2]
    /\ before.screen[31][63] = PIXEL_ON
    /\ chip8.screen[31][63] = PIXEL_OFF
    /\ chip8.screen[31][60] = PIXEL_ON

\* The machine after a shift of Vx that puts the given bit in VF and the given
\* value in Vx, ticks both timers, advances PC and changes nothing else.
Shifted(m, x, bit, value) ==
    [m EXCEPT !.register[15] = bit,
              !.register[x] = value,
              !.delay_timer = Tick(@),
              !.sound_timer = Tick(@),
              !.pc = @ + 2]

\* C33: for x # 15, 8xy6 leaves VF = Vx_before AND 1 and Vx = Vx_before >> 1,
\* and 8xyE leaves VF = Vx_before >> 7 and Vx = (Vx_before << 1) mod 256; the
\* result is the same whatever Vy holds, and no register but Vx and VF changes.
C33_Shifts ==
    [][ \A n \in {6, 14} :
           (Executes8(n) /\ OpX(last_opcode') # 15)
           => LET x == OpX(last_opcode')
                  vx == chip8.register[x]
              IN /\ ~panicked'
                 /\ chip8' = IF n = 6
                             THEN Shifted(chip8, x, vx % 2, vx \div 2)
                             ELSE Shifted(chip8, x, vx \div 128, (vx * 2) % U8) ]_vars

C33_Witness ==
    /\ last_opcode = 32798
    /\ ~panicked
    /\ before.register[0] = 170
    /\ before.register[1] = 1
    /\ chip8.register[0] = 84
    /\ chip8.register[1] = 1
    /\ chip8.register[15] = 1

\* C34: Fx33 with I <= 4093 completes and leaves the hundreds, tens and units
\* digits of Vx in memory[I], memory[I + 1] and memory[I + 2]; I, every
\* register and every other memory byte are as they were.
C34_StoreBcd ==
    [][ (Executed /\ OpGroup(last_opcode') = 15 /\ OpNN(last_opcode') = 51
         /\ chip8.i <= 4093)
        => LET vx == chip8.register[OpX(last_opcode')]
               i == chip8.i
               mem == chip8'.memory
           IN /\ ~panicked'
              /\ mem[i] \in 0..9 /\ mem[i + 1] \in 0..9 /\ mem[i + 2] \in 0..9
              /\ 100 * mem[i] + 10 * mem[i + 1] + mem[i + 2] = vx
              /\ \A a \in 0..(MEMORY - 1) :
                    a \notin i..(i + 2) => mem[a] = chip8.memory[a]
              /\ chip8'.i = i
              /\ chip8'.register = chip8.register ]_vars

C34_Witness ==
    /\ last_opcode = 61491
    /\ ~panicked
    /\ steps = 1
    /\ chip8.register[0] = 123
    /\ chip8.i = 4093
    /\ chip8.memory[4093] = 1
    /\ chip8.memory[4094] = 2
    /\ chip8.memory[4095] = 3

\* Fx55 or Fx65 is executed.
ExecutesF(nn) == Executed /\ OpGroup(last_opcode') = 15 /\ OpNN(last_opcode') = nn

\* C35: an Fx55 that completes copies V0..Vx to memory[I..I + x] and an Fx65
\* that completes copies memory[I..I + x] to V0..Vx; both leave I, the
\* registers above x and the memory outside I..I + x as they were (Fx55 every
\* register, Fx65 all of memory), and an Fx65 that directly follows an Fx55
\* with the same x leaves V0..Vx as they were before the Fx55.
C35_StoreAndFillRegisters ==
    [][ LET x == OpX(last_opcode')
            i == chip8.i
        IN /\ (ExecutesF(85) /\ ~panicked')
              => /\ \A r \in 0..x : chip8'.memory[i + r] = chip8.register[r]
                 /\ \A a \in 0..(MEMORY - 1) :
                       a \notin i..(i + x) => chip8'.memory[a] = chip8.memory[a]
                 /\ chip8'.register = chip8.register
                 /\ chip8'.i = i
           /\ (ExecutesF(101) /\ ~panicked')
              => /\ \A r \in 0..x : chip8'.register[r] = chip8.memory[i + r]
                 /\ \A r \in (x + 1)..15 : chip8'.register[r] = chip8.register[r]
                 /\ chip8'.memory = chip8.memory
                 /\ chip8'.i = i
                 /\ (steps > 0 /\ last_opcode = 61440 + x * 256 + 85)
                    => /\ before.i = i
                       /\ \A r \in 0..x : chip8'.register[r] = before.register[r] ]_vars

C35_Witness ==
    /\ steps = 2
    /\ last_opcode = 62053
    /\ ~panicked
    /\ chip8.i = 600
    /\ chip8.register[0] = 123
    /\ chip8.register[1] = 170
    /\ chip8.register[2] = 18
    /\ before.memory[600] = 123
    /\ before.memory[601] = 170
    /\ before.memory[602] = 18
    /\ before.memory[603] = 0

\* C36: one step of Fx15 with Vx = v leaves the delay timer at v - 1 (0 for
\* v = 0) and the sound timer ticked once; one step of Fx18 leaves the sound
\* timer at v - 1 (0 for v = 0) and the delay timer ticked once; Fx07 leaves
\* in Vx the delay timer as it was before the step, and ticks both timers.
C36_TimerOpcodes ==
    [][ LET v == chip8.register[OpX(last_opcode')]
        IN /\ ExecutesF(21)
              => /\ ~panicked'
                 /\ chip8'.delay_timer = (IF v > 0 THEN v - 1 ELSE 0)
                 /\ chip8'.sound_timer = Tick(chip8.sound_timer)
           /\ ExecutesF(24)
              => /\ ~panicked'
                 /\ chip8'.sound_timer = (IF v > 0 THEN v - 1 ELSE 0)
                 /\ chip8'.delay_timer = Tick(chip8.delay_timer)
           /\ ExecutesF(7)
              => /\ ~panicked'
                 /\ chip8'.register[OpX(last_opcode')] = chip8.delay_timer
                 /\ chip8'.delay_timer = Tick(chip8.delay_timer)
                 /\ chip8'.sound_timer = Tick(chip8.sound_timer) ]_vars

C36_Witness ==
    /\ last_opcode = 61464
    /\ ~panicked
    /\ before.register[0] = 170
    /\ before.sound_timer = 3
    /\ before.delay_timer = 3
    /\ chip8.sound_timer = 169
    /\ chip8.delay_timer = 2

\* The stack holds exactly the calls that have not returned, oldest first.
StackIsPending ==
    /\ chip8.sp \in 0..16
    /\ chip8.sp = Len(pending)
    /\ \A k \in 0..(chip8.sp - 1) : chip8.stack[k] = pending[k + 1]

\* C37: in every state that has not faulted, 0 <= sp <= 16, sp is the number
\* of 2nnn executed minus the number of 00EE executed, and stack[0..sp - 1]
\* are the addresses of the calls that have not returned, in call order; an
\* opcode other than 2nnn and 00EE leaves sp and every stack entry alone.
C37_StackDiscipline ==
    /\ [](~panicked => StackIsPending)
    /\ [][ (Executed /\ OpGroup(last_opcode') # 2 /\ last_opcode' # 238)
           => /\ chip8'.sp = chip8.sp
              /\ chip8'.stack = chip8.stack ]_vars

C37_Witness ==
    /\ ~panicked
    /\ steps = 4
    /\ before.sp = 1
    /\ before.stack[1] = 768
    /\ last_opcode = 8960
    /\ chip8.sp = 2
    /\ pending = << 512, 770 >>
    /\ chip8.stack[0] = 512
    /\ chip8.stack[1] = 770
    /\ chip8.delay_timer = 0
    /\ chip8.register[0] = 0

\* The next instruction is an Fx0A and no key is outstanding.
WaitsWithoutKey == WaitsForKey(chip8, Fetched) /\ ~read_opcode(chip8).panic

\* run() is in progress at an Fx0A with no key outstanding.
StuckInRun == run_state = "looping" /\ ~panicked /\ WaitsWithoutKey

\* C38: once run() is at an Fx0A with no key outstanding it stays there for
\* ever: every further turn of its loop executes that Fx0A again and leaves the
\* complete machine, timers included, as it was, so run() neither returns nor
\* faults; and when the host steps instead, an Fx0A that finds no key leaves
\* the machine as it was while one that follows a press stores the key in Vx
\* and goes on to the next instruction.
C38_WaitNeverEndsInRun ==
    /\ [](StuckInRun => [](run_state = "looping" /\ ~panicked))
    /\ [][ (WaitsWithoutKey /\ steps' # steps)
           => /\ Executed
              /\ last_opcode' = Fetched
              /\ chip8' = chip8
              /\ ~panicked'
              /\ run_state' # "returned"
              /\ run_state' = "looping" => StuckInRun' ]_vars
    /\ [][ (OpGroup(Fetched) = 15 /\ OpNN(Fetched) = 10 /\ chip8.keyboard # {}
            /\ ~read_opcode(chip8).panic /\ steps' # steps)
           => /\ chip8'.register[OpX(Fetched)] \in chip8.keyboard
              /\ chip8'.keyboard = {}
              /\ chip8'.pc = chip8.pc + 2
              /\ ~panicked' ]_vars

C38_Witness ==
    /\ StuckInRun
    /\ steps = MaxSteps
    /\ last_opcode = 61706
    /\ chip8.pc = 516
    /\ chip8.delay_timer = 4
    /\ before = chip8

\* A stepped Fx0A that follows a press has gone on to the next instruction.
C38_SteppedPastWait ==
    /\ run_state = "idle"
    /\ ~panicked
    /\ last_opcode = 61706
    /\ before.keyboard = {4}
    /\ chip8.keyboard = {}
    /\ chip8.register[1] = 4
    /\ chip8.pc = 518
    /\ steps > 3

\* The places (column, line) the set bits of the sprite of a Dxyn stand for,
\* taken from the registers and the memory of machine m, without any wrapping.
SpritePlaces(m, op) ==
    UNION { { << m.register[OpX(op)] + b, m.register[OpY(op)] + r >> :
                 b \in SetBits(m.memory[m.i + r]) } :
            r \in 0..((op % 16) - 1) }

\* An executed Dxyn with x, y # 15 (VF is cleared before Vx and Vy are read).
Draws == Executed /\ OpGroup(last_opcode') = 13
         /\ OpX(last_opcode') # 15 /\ OpY(last_opcode') # 15

\* C39: a Dxyn never wraps its coordinates: if a set bit of the sprite stands
\* for a column >= 64 or a line >= 32 the instruction is a fatal fault, in no
\* case is a pixel toggled that is not at (Vx + b, Vy + row) for a set bit,
\* and a sprite whose set bits are all inside the grid is drawn without a
\* fault, even when Vx + 7 >= 64.
C39_NeverWraps ==
    [][ Draws
        => LET places == SpritePlaces(chip8, last_opcode')
           IN /\ (\E t \in places : ~OnGrid(t)) => panicked'
              /\ Toggled(chip8.screen, chip8'.screen) \subseteq places
              /\ (\A t \in places : OnGrid(t))
                 => ~panicked' /\ Toggled(chip8.screen, chip8'.screen) = places ]_vars

\* C39 on a build with overflow checks: the same statement holds.
C39_NeverWrapsWithOverflowChecks ==
    [][ (Draws /\ overflow_checks)
        => LET places == SpritePlaces(chip8, last_opcode')
           IN /\ (\E t \in places : ~OnGrid(t)) => panicked'
              /\ Toggled(chip8.screen, chip8'.screen) \subseteq places
              /\ (\A t \in places : OnGrid(t))
                 => ~panicked' /\ Toggled(chip8.screen, chip8'.screen) = places ]_vars

\* A sprite that reaches the right edge exactly is drawn without a fault.
C39_DrawnUpToTheEdge ==
    /\ ~panicked
    /\ last_opcode = 53266
    /\ steps = 1
    /\ chip8.register[0] = 60
    /\ chip8.register[1] = 30
    /\ chip8.i = 0
    /\ chip8.screen[30][63] = PIXEL_ON
    /\ chip8.screen[31][63] = PIXEL_ON
    /\ chip8.screen[31][61] = PIXEL_OFF

====
